---- MODULE Spec2Model ----
(***************************************************************************)
(* A model of the lambda-calculus interpreter: Lexer (src/lexer.ts),       *)
(* Parser (src/parser.ts), Interpreter (src/interpreter.ts) and the        *)
(* LambdaCalculus facade (src/index.ts).                                   *)
(*                                                                         *)
(* Strings are sequences of characters; a character is a one-character     *)
(* string, except the non-ASCII characters, which are written by code      *)
(* point: "U+03BB" is the Greek letter lambda, "U+00CE" and "U+00BB" are   *)
(* the two characters of the case label at src/lexer.ts:83.                *)
(***************************************************************************)
EXTENDS Integers, Sequences, FiniteSets, TLC

VARIABLES
  raw, input, position, tokens, lexPc,         \* Lexer
  parserTokens, cursor, ast, parsePc,          \* Parser
  node, maxSteps, current, steps, evalPc, evalResult,   \* Interpreter.evaluate
  wsCurrent, stepCount, wsSteps, wsPc, wsResult,        \* LambdaCalculus.evaluateWithSteps
  subNode, varName, replacement, subResult, subPc  \* Interpreter.substitute

lexVars == <<raw, input, position, tokens, lexPc>>
parseVars == <<parserTokens, cursor, ast, parsePc>>
evalVars == <<node, maxSteps, current, steps, evalPc, evalResult>>
wsVars == <<wsCurrent, stepCount, wsSteps, wsPc, wsResult>>
subVars == <<subNode, varName, replacement, subResult, subPc>>
vars == <<lexVars, parseVars, evalVars, wsVars, subVars>>

(***************************************************************************)
(* Bounds of the model.                                                    *)
(***************************************************************************)
\* Largest step budget (maxSteps) a caller passes.
MaxBudget == 4
\* Largest node count of the exhaustively enumerated input terms.
MaxSize == 7
\* Largest length of the exhaustively enumerated input texts.
MaxLen == 4
\* Largest node count of the terms substitute is called on directly.
MaxSubstSize == 4
\* Largest node count of the terms that are printed and read back.
MaxRoundSize == 7

(***************************************************************************)
(* AST (src/ast.ts).                                                       *)
(***************************************************************************)
variable(name) == [type |-> "Variable", name |-> name]

abstraction(param, body) == [type |-> "Abstraction", param |-> param, body |-> body]

application(left, right) == [type |-> "Application", left |-> left, right |-> right]

\* The null that step returns when no reduction is possible.
null == [type |-> "null"]

(***************************************************************************)
(* Interpreter (src/interpreter.ts).                                       *)
(***************************************************************************)
RECURSIVE isFreeIn(_, _)
isFreeIn(name, n) ==
  CASE n.type = "Variable" -> n.name = name
    [] n.type = "Abstraction" -> n.param # name /\ isFreeIn(name, n.body)
    [] n.type = "Application" -> isFreeIn(name, n.left) \/ isFreeIn(name, n.right)

RECURSIVE freshLoop(_, _)
freshLoop(newName, n) ==
  IF isFreeIn(newName, n) THEN freshLoop(Append(newName, "'"), n) ELSE newName

freshVarName(usedName, n) == freshLoop(Append(usedName, "'"), n)

RECURSIVE substitute(_, _, _)
substitute(n, vName, repl) ==
  CASE n.type = "Variable" -> IF n.name = vName THEN repl ELSE n
    [] n.type = "Abstraction" ->
         IF n.param = vName THEN n
         ELSE IF isFreeIn(n.param, repl) /\ isFreeIn(vName, n.body)
              THEN LET freshName == freshVarName(n.param, repl)
                       newBody == substitute(n.body, n.param, variable(freshName))
                   IN abstraction(freshName, substitute(newBody, vName, repl))
              ELSE abstraction(n.param, substitute(n.body, vName, repl))
    [] n.type = "Application" ->
         application(substitute(n.left, vName, repl), substitute(n.right, vName, repl))

betaReduce(func, arg) == substitute(func.body, func.param, arg)

\* step with the two operands tried in the other order.
RECURSIVE stepRightFirst(_)
stepRightFirst(n) ==
  CASE n.type = "Variable" -> null
    [] n.type = "Abstraction" ->
         LET reducedBody == stepRightFirst(n.body)
         IN IF reducedBody = null THEN null ELSE abstraction(n.param, reducedBody)
    [] n.type = "Application" ->
         LET reducedRight == stepRightFirst(n.right)
         IN IF reducedRight # null THEN application(n.left, reducedRight)
            ELSE LET reducedLeft == stepRightFirst(n.left)
                 IN IF reducedLeft # null THEN application(reducedLeft, n.right)
                    ELSE IF n.left.type = "Abstraction"
                         THEN betaReduce(n.left, n.right)
                         ELSE null

\* step with the beta reduction tried before the operands are reduced.
RECURSIVE stepNormalOrder(_)
stepNormalOrder(n) ==
  CASE n.type = "Variable" -> null
    [] n.type = "Abstraction" ->
         LET reducedBody == stepNormalOrder(n.body)
         IN IF reducedBody = null THEN null ELSE abstraction(n.param, reducedBody)
    [] n.type = "Application" ->
         IF n.left.type = "Abstraction" THEN betaReduce(n.left, n.right)
         ELSE LET reducedLeft == stepNormalOrder(n.left)
              IN IF reducedLeft # null THEN application(reducedLeft, n.right)
                 ELSE LET reducedRight == stepNormalOrder(n.right)
                      IN IF reducedRight # null THEN application(n.left, reducedRight)
                         ELSE null

RECURSIVE step(_)
step(n) ==
  CASE n.type = "Variable" -> null
    [] n.type = "Abstraction" ->
         LET reducedBody == step(n.body)
         IN IF reducedBody = null THEN null ELSE abstraction(n.param, reducedBody)
    [] n.type = "Application" ->
         LET reducedLeft == step(n.left)
         IN IF reducedLeft # null THEN application(reducedLeft, n.right)
            ELSE LET reducedRight == step(n.right)
                 IN IF reducedRight # null THEN application(n.left, reducedRight)
                    ELSE IF n.left.type = "Abstraction"
                         THEN betaReduce(n.left, n.right)
                         ELSE null

\* toString with the right operand never parenthesized.
RECURSIVE toStringBare(_)
toStringBare(n) ==
  CASE n.type = "Variable" -> n.name
    [] n.type = "Abstraction" ->
         <<"(", "U+03BB">> \o n.param \o <<".">> \o toStringBare(n.body) \o <<")">>
    [] n.type = "Application" ->
         toStringBare(n.left) \o <<" ">> \o toStringBare(n.right)

RECURSIVE toString(_)
toString(n) ==
  CASE n.type = "Variable" -> n.name
    [] n.type = "Abstraction" ->
         <<"(", "U+03BB">> \o n.param \o <<".">> \o toString(n.body) \o <<")">>
    [] n.type = "Application" ->
         LET left == toString(n.left)
             right == toString(n.right)
             rightStr == IF n.right.type = "Variable" THEN right
                         ELSE <<"(">> \o right \o <<")">>
         IN left \o <<" ">> \o rightStr

(***************************************************************************)
(* Input terms: every term of at most MaxSize nodes over Names, and a      *)
(* corpus of larger programs (the README's and the REPL's examples among   *)
(* them).  All names are plain identifiers, as the parser produces them.   *)
(***************************************************************************)
Names == {<<"x">>, <<"y">>}

RECURSIVE TermsOver(_, _)
TermsOver(names, n) ==
  IF n = 1 THEN {variable(x) : x \in names}
  ELSE {abstraction(p, b) : p \in names, b \in TermsOver(names, n - 1)}
       \cup UNION {{application(l, r) : l \in TermsOver(names, k),
                                        r \in TermsOver(names, n - 1 - k)}
                   : k \in 1..(n - 2)}

TermsOfSize(n) == TermsOver(Names, n)

SmallTerms == UNION {TermsOfSize(n) : n \in 1..MaxSize}

vx == variable(<<"x">>)
vy == variable(<<"y">>)
vz == variable(<<"z">>)
vf == variable(<<"f">>)

\* \x.x x
SelfApp == abstraction(<<"x">>, application(vx, vx))
\* (\x.x x) (\x.x x)
Omega == application(SelfApp, SelfApp)
\* (\x.y) ((\x.x x) (\x.x x))
KOmega == application(abstraction(<<"x">>, vy), Omega)
\* \f.(\x.f (x x)) (\x.f (x x)), src/index.ts:89
YHalf == abstraction(<<"x">>, application(vf, application(vx, vx)))
YCombinator == abstraction(<<"f">>, application(YHalf, YHalf))
\* The abstractions g the Y combinator is applied to.
YArguments == {t \in TermsOfSize(2) \cup TermsOfSize(3) \cup TermsOfSize(4)
                        \cup TermsOfSize(5)
                 : t.type = "Abstraction"}
YApplications == {application(YCombinator, g) : g \in YArguments}
\* (\x.x x) (\y.y), src/index.ts:74
SelfAppId == application(SelfApp, abstraction(<<"y">>, vy))
\* (\x.x) ((\y.y) z): a redex whose argument holds a redex
ArgRedex == application(abstraction(<<"x">>, vx),
                        application(abstraction(<<"y">>, vy), vz))
\* (\x.(\y.y) x) z: a redex whose body holds a redex
BodyRedex == application(abstraction(<<"x">>, application(abstraction(<<"y">>, vy), vx)), vz)
\* Church numerals: (\n.\f.\x.f (n f x)) (\f.\x.f x)
ChurchOne == abstraction(<<"f">>, abstraction(<<"x">>, application(vf, vx)))
ChurchSucc == abstraction(<<"n">>, abstraction(<<"f">>, abstraction(<<"x">>,
                application(vf, application(application(variable(<<"n">>), vf), vx)))))
SuccOne == application(ChurchSucc, ChurchOne)
\* (\x.(\z.\y.z y) (\z.y (\y.x z))) y
Nested == application(
            abstraction(<<"x">>,
              application(
                abstraction(<<"z">>, abstraction(<<"y">>, application(vz, vy))),
                abstraction(<<"z">>, application(vy, abstraction(<<"y">>, application(vx, vz)))))),
            vy)

\* ((\x.x) y) ((\x.x) z): a redex in each operand
TwoRedexes == application(application(abstraction(<<"x">>, vx), vy),
                          application(abstraction(<<"x">>, vx), vz))

Corpus == {Omega, KOmega, YCombinator, SelfAppId, ArgRedex, BodyRedex, TwoRedexes,
           SuccOne, Nested}
            \cup YApplications

InputTerms == SmallTerms \cup Corpus

(***************************************************************************)
(* Interpreter.evaluate (src/interpreter.ts:80-95), one action per         *)
(* iteration of its loop.                                                  *)
(***************************************************************************)
\* while (steps < maxSteps)
LoopConditionInclusive == steps <= maxSteps

LoopCondition == steps < maxSteps

EvaluateStep ==
  /\ evalPc = "loop"
  /\ LoopCondition
  /\ step(current) # null
  /\ current' = step(current)
  /\ steps' = steps + 1
  /\ UNCHANGED <<node, maxSteps, evalPc, evalResult>>
  /\ UNCHANGED <<lexVars, parseVars, wsVars, subVars>>

EvaluateReturn ==
  /\ evalPc = "loop"
  /\ LoopCondition
  /\ step(current) = null
  /\ evalPc' = "returned"
  /\ evalResult' = current
  /\ UNCHANGED <<node, maxSteps, current, steps>>
  /\ UNCHANGED <<lexVars, parseVars, wsVars, subVars>>

EvaluateThrow ==
  /\ evalPc = "loop"
  /\ ~LoopCondition
  /\ evalPc' = "threw"
  /\ UNCHANGED <<node, maxSteps, current, steps, evalResult>>
  /\ UNCHANGED <<lexVars, parseVars, wsVars, subVars>>

\* The whole call, as a function: the returned node, or null when it throws.
RECURSIVE evaluateFrom(_, _, _)
evaluateFrom(cur, count, max) ==
  IF count < max
  THEN LET result == step(cur)
       IN IF result = null THEN cur ELSE evaluateFrom(result, count + 1, max)
  ELSE null

evaluate(n, max) == evaluateFrom(n, 0, max)

(***************************************************************************)
(* LambdaCalculus.evaluateWithSteps (src/index.ts:33-58) on the same term  *)
(* and budget, called once evaluate has ended.                             *)
(***************************************************************************)
WithStepsBegin ==
  /\ evalPc \in {"returned", "threw"}
  /\ wsPc = "idle"
  /\ wsSteps' = <<toString(node)>>
  /\ wsCurrent' = node
  /\ stepCount' = 0
  /\ wsPc' = "loop"
  /\ UNCHANGED wsResult
  /\ UNCHANGED <<lexVars, parseVars, evalVars, subVars>>

WithStepsStep ==
  /\ wsPc = "loop"
  /\ stepCount < maxSteps
  /\ step(wsCurrent) # null
  /\ wsCurrent' = step(wsCurrent)
  /\ wsSteps' = Append(wsSteps, toString(wsCurrent'))
  /\ stepCount' = stepCount + 1
  /\ UNCHANGED <<wsPc, wsResult>>
  /\ UNCHANGED <<lexVars, parseVars, evalVars, subVars>>

\* if (stepCount >= maxSteps)
BoundHitStrict == stepCount > maxSteps

BoundHit == stepCount >= maxSteps

\* The loop is left (by break, or by its condition), then line 53 decides.
WithStepsReturn ==
  /\ wsPc = "loop"
  /\ \/ ~(stepCount < maxSteps)
     \/ step(wsCurrent) = null
  /\ ~BoundHit
  /\ wsPc' = "returned"
  /\ wsResult' = [result |-> wsCurrent, steps |-> wsSteps]
  /\ UNCHANGED <<wsCurrent, stepCount, wsSteps>>
  /\ UNCHANGED <<lexVars, parseVars, evalVars, subVars>>

WithStepsThrow ==
  /\ wsPc = "loop"
  /\ \/ ~(stepCount < maxSteps)
     \/ step(wsCurrent) = null
  /\ BoundHit
  /\ wsPc' = "threw"
  /\ UNCHANGED <<wsCurrent, stepCount, wsSteps, wsResult>>
  /\ UNCHANGED <<lexVars, parseVars, evalVars, subVars>>

(***************************************************************************)
(* Lexer (src/lexer.ts).  position is the 0-based index of the next        *)
(* character, as in the code; sequences are 1-based.                       *)
(***************************************************************************)
Letters == {"a", "b", "c", "d", "e", "f", "g", "h", "i", "j", "k", "l", "m",
            "n", "o", "p", "q", "r", "s", "t", "u", "v", "w", "x", "y", "z",
            "A", "B", "C", "D", "E", "F", "G", "H", "I", "J", "K", "L", "M",
            "N", "O", "P", "Q", "R", "S", "T", "U", "V", "W", "X", "Y", "Z"}

Digits == {"0", "1", "2", "3", "4", "5", "6", "7", "8", "9"}

Whitespace == {" ", "\t", "\r", "\n"}

\* The label of the second case at line 83: a string of two characters.
GreekCaseLabel == <<"U+00CE", "U+00BB">>

\* String.prototype.trim, on the characters of the model.
RECURSIVE trim(_)
trim(text) ==
  IF text = <<>> THEN text
  ELSE IF Head(text) \in Whitespace THEN trim(Tail(text))
  ELSE IF text[Len(text)] \in Whitespace THEN trim(SubSeq(text, 1, Len(text) - 1))
  ELSE text

lexerIsAtEnd(text, pos) == pos >= Len(text)

lexerPeek(text, pos) == IF lexerIsAtEnd(text, pos) THEN "" ELSE text[pos + 1]

isAlpha(c) == c \in Letters

isAlphaNumeric(c) == isAlpha(c) \/ c \in Digits

\* The position readVariable stops at.
RECURSIVE readVariableEnd(_, _)
readVariableEnd(text, pos) ==
  IF isAlphaNumeric(lexerPeek(text, pos)) THEN readVariableEnd(text, pos + 1) ELSE pos

\* readVariable for an identifier of one character only.
readVariableOneCharacter(text, start) ==
  [value |-> SubSeq(text, start + 1, start + 1), position |-> start + 1]

readVariable(text, start) ==
  LET end == readVariableEnd(text, start)
  IN [value |-> SubSeq(text, start + 1, end), position |-> end]

RECURSIVE skipWhitespace(_, _)
skipWhitespace(text, pos) ==
  IF ~lexerIsAtEnd(text, pos) /\ lexerPeek(text, pos) \in Whitespace
  THEN skipWhitespace(text, pos + 1)
  ELSE pos

\* nextToken: the token, the position it leaves, or threw with the position
\* after the offending character.
nextToken(text, pos) ==
  LET start == skipWhitespace(text, pos)
  IN IF lexerIsAtEnd(text, start)
     THEN [threw |-> FALSE, token |-> [type |-> "EOF", position |-> start], position |-> start]
     ELSE LET currentPosition == start
              c == text[start + 1]
              single(type) == [threw |-> FALSE,
                               token |-> [type |-> type, position |-> currentPosition],
                               position |-> start + 1]
          IN CASE c = "\\" \/ <<c>> = GreekCaseLabel -> single("Lambda")
               [] c = "." -> single("Dot")
               [] c = "(" -> single("LParen")
               [] c = ")" -> single("RParen")
               [] OTHER ->
                    IF isAlpha(c)
                    THEN LET read == readVariable(text, currentPosition)
                         IN [threw |-> FALSE,
                             token |-> [type |-> "Variable", value |-> read.value,
                                        position |-> currentPosition],
                             position |-> read.position]
                    ELSE [threw |-> TRUE, token |-> null, position |-> start + 1]

\* tokenize (lines 105-115), one action per iteration of its loop.
TokenizeStep ==
  /\ lexPc = "scan"
  /\ LET next == nextToken(input, position)
     IN /\ ~next.threw
        /\ next.token.type # "EOF"
        /\ tokens' = Append(tokens, next.token)
        /\ position' = next.position
  /\ UNCHANGED <<raw, input, lexPc>>
  /\ UNCHANGED <<parseVars, evalVars, wsVars, subVars>>

TokenizeReturn ==
  /\ lexPc = "scan"
  /\ LET next == nextToken(input, position)
     IN /\ ~next.threw
        /\ next.token.type = "EOF"
        /\ tokens' = Append(tokens, next.token)
        /\ position' = next.position
  /\ lexPc' = "returned"
  /\ UNCHANGED <<raw, input>>
  /\ UNCHANGED <<parseVars, evalVars, wsVars, subVars>>

TokenizeThrow ==
  /\ lexPc = "scan"
  /\ LET next == nextToken(input, position)
     IN /\ next.threw
        /\ position' = next.position
  /\ lexPc' = "threw"
  /\ UNCHANGED <<raw, input, tokens>>
  /\ UNCHANGED <<parseVars, evalVars, wsVars, subVars>>

\* The whole call, as a function: the tokens, or null when it throws.
RECURSIVE tokenizeFrom(_, _, _)
tokenizeFrom(text, pos, acc) ==
  LET next == nextToken(text, pos)
  IN IF next.threw THEN null
     ELSE IF next.token.type = "EOF" THEN Append(acc, next.token)
     ELSE tokenizeFrom(text, next.position, Append(acc, next.token))

\* new Lexer(text).tokenize()
tokenize(text) == tokenizeFrom(trim(text), 0, <<>>)

(***************************************************************************)
(* Parser (src/parser.ts).  cur is the 0-based index this.current.  Each   *)
(* parsing method yields [ok, node, current]; ok is FALSE when it throws,  *)
(* and current is then the index of the token the error names.             *)
(***************************************************************************)
parserPeek(toks, cur) == toks[cur + 1]

parserIsAtEnd(toks, cur) == parserPeek(toks, cur).type = "EOF"

check(toks, cur, type) ==
  IF parserIsAtEnd(toks, cur) THEN FALSE ELSE parserPeek(toks, cur).type = type

parsed(n, cur) == [ok |-> TRUE, node |-> n, current |-> cur]

parseError(cur) == [ok |-> FALSE, node |-> null, current |-> cur]

RECURSIVE expression(_, _)
RECURSIVE applicationLoop(_, _, _)
RECURSIVE atom(_, _)

parseApplication(toks, cur) ==
  LET first == atom(toks, cur)
  IN IF first.ok THEN applicationLoop(toks, first.current, first.node) ELSE first

expression(toks, cur) == parseApplication(toks, cur)

applicationLoop(toks, cur, expr) ==
  IF ~parserIsAtEnd(toks, cur) /\ ~check(toks, cur, "RParen") /\ ~check(toks, cur, "Dot")
  THEN LET right == atom(toks, cur)
       IN IF right.ok THEN applicationLoop(toks, right.current, application(expr, right.node))
          ELSE right
  ELSE parsed(expr, cur)

atom(toks, cur) ==
  IF check(toks, cur, "Lambda")
  THEN IF ~check(toks, cur + 1, "Variable") THEN parseError(cur + 1)
       ELSE IF ~check(toks, cur + 2, "Dot") THEN parseError(cur + 2)
       ELSE LET param == parserPeek(toks, cur + 1)
                body == expression(toks, cur + 3)
            IN IF body.ok THEN parsed(abstraction(param.value, body.node), body.current)
               ELSE body
  ELSE IF check(toks, cur, "Variable")
  THEN parsed(variable(parserPeek(toks, cur).value), cur + 1)
  ELSE IF check(toks, cur, "LParen")
  THEN LET expr == expression(toks, cur + 1)
       IN IF ~expr.ok THEN expr
          ELSE IF check(toks, expr.current, "RParen") THEN parsed(expr.node, expr.current + 1)
          ELSE parseError(expr.current)
  ELSE parseError(cur)

parse(toks) == expression(toks, 0)

\* LambdaCalculus.parse (src/index.ts:17-22): new Parser(lexer.tokenize())
ParserNew ==
  /\ lexPc = "returned"
  /\ parsePc = "idle"
  /\ parserTokens' = tokens
  /\ cursor' = 0
  /\ parsePc' = "ready"
  /\ UNCHANGED ast
  /\ UNCHANGED <<lexVars, evalVars, wsVars, subVars>>

ParseReturn ==
  /\ parsePc = "ready"
  /\ LET result == parse(parserTokens)
     IN /\ result.ok
        /\ ast' = result.node
        /\ cursor' = result.current
  /\ parsePc' = "returned"
  /\ UNCHANGED parserTokens
  /\ UNCHANGED <<lexVars, evalVars, wsVars, subVars>>

ParseThrow ==
  /\ parsePc = "ready"
  /\ LET result == parse(parserTokens)
     IN /\ ~result.ok
        /\ cursor' = result.current
  /\ parsePc' = "threw"
  /\ UNCHANGED <<parserTokens, ast>>
  /\ UNCHANGED <<lexVars, evalVars, wsVars, subVars>>

(***************************************************************************)
(* Input texts: every text of at most MaxLen characters over Alphabet.     *)
(***************************************************************************)
Alphabet == {"x", "1", " ", ".", "(", ")", "\\", "U+03BB", "+"}

Texts == UNION {[1..n -> Alphabet] : n \in 0..MaxLen}

LexIdle ==
  /\ raw = <<>> /\ input = <<>> /\ position = 0 /\ tokens = <<>> /\ lexPc = "idle"

ParseIdle ==
  /\ parserTokens = <<>> /\ cursor = 0 /\ ast = null /\ parsePc = "idle"

EvalIdle ==
  /\ node = null /\ maxSteps = 0 /\ current = null /\ steps = 0 /\ evalPc = "idle"
  /\ evalResult = null

WithStepsIdle ==
  /\ wsCurrent = null /\ stepCount = 0 /\ wsSteps = <<>> /\ wsPc = "idle"
  /\ wsResult = null

SubIdle ==
  /\ subNode = null /\ varName = <<>> /\ replacement = null /\ subResult = null
  /\ subPc = "idle"

Init ==
  /\ node \in InputTerms
  /\ maxSteps \in 0..MaxBudget
  /\ current = node
  /\ steps = 0
  /\ evalPc = "loop"
  /\ evalResult = null
  /\ WithStepsIdle
  /\ LexIdle /\ ParseIdle /\ SubIdle

Next ==
  \/ EvaluateStep
  \/ EvaluateReturn
  \/ EvaluateThrow
  \/ WithStepsBegin
  \/ WithStepsStep
  \/ WithStepsReturn
  \/ WithStepsThrow

Spec == Init /\ [][Next]_vars

\* A text handed to LambdaCalculus.parse: the Lexer is constructed on it.
InitFront ==
  /\ raw \in Texts
  /\ input = trim(raw)
  /\ position = 0
  /\ tokens = <<>>
  /\ lexPc = "scan"
  /\ ParseIdle /\ EvalIdle /\ WithStepsIdle /\ SubIdle

NextFront ==
  \/ TokenizeStep
  \/ TokenizeReturn
  \/ TokenizeThrow
  \/ ParserNew
  \/ ParseReturn
  \/ ParseThrow

SpecFront == InitFront /\ [][NextFront]_vars

(***************************************************************************)
(* Interpreter.substitute called directly: the names may carry the prime   *)
(* that freshVarName appends.                                              *)
(***************************************************************************)
SubstNames == Names \cup {<<"y", "'">>}

SubstNodes == UNION {TermsOver(SubstNames, n) : n \in 1..MaxSubstSize}

SubstReplacements == TermsOver(SubstNames, 1) \cup TermsOver(SubstNames, 2)

Substitute ==
  /\ subPc = "call"
  /\ subResult' = substitute(subNode, varName, replacement)
  /\ subPc' = "done"
  /\ UNCHANGED <<subNode, varName, replacement>>
  /\ UNCHANGED <<lexVars, parseVars, evalVars, wsVars>>

InitSubst ==
  /\ subNode \in SubstNodes
  /\ varName \in SubstNames
  /\ replacement \in SubstReplacements
  /\ subResult = null
  /\ subPc = "call"
  /\ LexIdle /\ ParseIdle /\ EvalIdle /\ WithStepsIdle

NextSubst == Substitute

SpecSubst == InitSubst /\ [][NextSubst]_vars

\* evaluate and evaluateWithSteps run to completion: no call is left half-way.
FairSpec == Spec /\ WF_vars(Next)

(***************************************************************************)
(* Reference definitions the properties are stated with.                   *)
(***************************************************************************)
\* de Bruijn form: a bound variable is the number of binders between it and
\* its own; alpha-equivalent terms have the same de Bruijn form.
Position(env, name) ==
  IF \E i \in 1..Len(env) : env[i] = name
  THEN CHOOSE i \in 1..Len(env) : env[i] = name /\ \A j \in 1..(i - 1) : env[j] # name
  ELSE 0

RECURSIVE DeBruijnIn(_, _)
DeBruijnIn(t, env) ==
  CASE t.type = "Variable" ->
         LET i == Position(env, t.name)
         IN IF i > 0 THEN [type |-> "Bound", index |-> i - 1]
            ELSE [type |-> "Free", name |-> t.name]
    [] t.type = "Abstraction" -> [type |-> "Lam", body |-> DeBruijnIn(t.body, <<t.param>> \o env)]
    [] t.type = "Application" ->
         [type |-> "App", left |-> DeBruijnIn(t.left, env), right |-> DeBruijnIn(t.right, env)]

DeBruijn(t) == DeBruijnIn(t, <<>>)

AlphaEquivalent(s, t) == DeBruijn(s) = DeBruijn(t)

RECURSIVE Shift(_, _, _)
Shift(d, by, cutoff) ==
  CASE d.type = "Bound" -> IF d.index >= cutoff THEN [d EXCEPT !.index = d.index + by] ELSE d
    [] d.type = "Free" -> d
    [] d.type = "Lam" -> [d EXCEPT !.body = Shift(d.body, by, cutoff + 1)]
    [] d.type = "App" ->
         [d EXCEPT !.left = Shift(d.left, by, cutoff), !.right = Shift(d.right, by, cutoff)]

RECURSIVE RefSubstitute(_, _, _)
RefSubstitute(d, j, s) ==
  CASE d.type = "Bound" -> IF d.index = j THEN s ELSE d
    [] d.type = "Free" -> d
    [] d.type = "Lam" -> [d EXCEPT !.body = RefSubstitute(d.body, j + 1, Shift(s, 1, 0))]
    [] d.type = "App" ->
         [d EXCEPT !.left = RefSubstitute(d.left, j, s), !.right = RefSubstitute(d.right, j, s)]

RefBeta(body, arg) == Shift(RefSubstitute(body, 0, Shift(arg, 1, 0)), -1, 0)

\* The places of a term: the path from the root.
RECURSIVE RedexPaths(_)
RedexPaths(t) ==
  CASE t.type = "Variable" -> {}
    [] t.type = "Abstraction" -> {<<"body">> \o p : p \in RedexPaths(t.body)}
    [] t.type = "Application" ->
         (IF t.left.type = "Abstraction" THEN {<<>>} ELSE {})
         \cup {<<"left">> \o p : p \in RedexPaths(t.left)}
         \cup {<<"right">> \o p : p \in RedexPaths(t.right)}

IsPrefix(p, q) == Len(p) <= Len(q) /\ SubSeq(q, 1, Len(p)) = p

Innermost(S) == {p \in S : \A q \in S : IsPrefix(p, q) => q = p}

Outermost(S) == {p \in S : \A q \in S : IsPrefix(q, p) => q = p}

LeftOf(p, q) ==
  \E i \in 1..Len(p) :
    /\ i <= Len(q)
    /\ SubSeq(p, 1, i - 1) = SubSeq(q, 1, i - 1)
    /\ p[i] = "left"
    /\ q[i] = "right"

Leftmost(S) == CHOOSE p \in S : \A q \in S \ {p} : LeftOf(p, q)

\* The term with the redex at place p contracted by the interpreter's betaReduce.
RECURSIVE ContractAt(_, _)
ContractAt(t, p) ==
  IF p = <<>> THEN betaReduce(t.left, t.right)
  ELSE CASE Head(p) = "body" -> abstraction(t.param, ContractAt(t.body, Tail(p)))
         [] Head(p) = "left" -> application(ContractAt(t.left, Tail(p)), t.right)
         [] Head(p) = "right" -> application(t.left, ContractAt(t.right, Tail(p)))

\* The de Bruijn term with the redex at place p contracted by RefBeta.
RECURSIVE RefContractAt(_, _)
RefContractAt(d, p) ==
  IF p = <<>> THEN RefBeta(d.left.body, d.right)
  ELSE CASE Head(p) = "body" -> [d EXCEPT !.body = RefContractAt(d.body, Tail(p))]
         [] Head(p) = "left" -> [d EXCEPT !.left = RefContractAt(d.left, Tail(p))]
         [] Head(p) = "right" -> [d EXCEPT !.right = RefContractAt(d.right, Tail(p))]

\* The place of the redex step contracts: the first place at which the term
\* and step's result differ on de Bruijn form lies on it; it is found as the
\* leftmost innermost redex (C3_ApplicativeOrder).
StepPath(t) == Leftmost(Innermost(RedexPaths(t)))

\* The term after k applications of step; null once step has returned null.
RECURSIVE Reduct(_, _)
Reduct(t, k) ==
  IF k = 0 THEN t
  ELSE LET r == step(t) IN IF r = null THEN null ELSE Reduct(r, k - 1)

IsNormal(t) == t # null /\ step(t) = null

Reducible(t) == t # null /\ step(t) # null

EvaluateEnded == evalPc \in {"returned", "threw"}

(***************************************************************************)
(* C1. Reduction from parsed input is capture-avoiding: whenever step      *)
(* contracts a redex of a term reached from the input, the result is       *)
(* alpha-equivalent to the contraction of that redex by the reference      *)
(* substitution (equal on de Bruijn form).                                 *)
(***************************************************************************)
C1_CaptureAvoiding ==
  (evalPc # "idle" /\ Reducible(current)) =>
    DeBruijn(step(current)) = RefContractAt(DeBruijn(current), StepPath(current))

RECURSIVE InnermostReduct(_, _)
InnermostReduct(t, k) ==
  IF k = 0 THEN t
  ELSE IF RedexPaths(t) = {} THEN null
       ELSE InnermostReduct(ContractAt(t, Leftmost(Innermost(RedexPaths(t)))), k - 1)

C5_FailsOnlyPastBound ==
  EvaluateEnded =>
    /\ evalPc = "threw" <=> \A k \in 0..maxSteps : Reducible(Reduct(node, k))
    /\ \A k \in 0..maxSteps :
         IsNormal(Reduct(node, k)) => (evalPc = "returned" /\ evalResult = Reduct(node, k))
    /\ IsNormal(node) => (evalPc = "returned" /\ evalResult = node)

(***************************************************************************)
(* C5, amended. evaluate fails exactly when all of the first maxSteps      *)
(* terms of the reduction sequence (after 0 .. maxSteps - 1 steps) are     *)
(* reducible, and then after exactly maxSteps steps; a normal form reached *)
(* after k steps, 0 <= k < maxSteps, is returned; a term with no step is   *)
(* returned unchanged when maxSteps >= 1.                                  *)
(***************************************************************************)
C5_FailsAtBound ==
  EvaluateEnded =>
    /\ evalPc = "threw" <=> \A k \in 0..(maxSteps - 1) : Reducible(Reduct(node, k))
    /\ evalPc = "threw" => (steps = maxSteps /\ evalResult = null)
    /\ \A k \in 0..(maxSteps - 1) :
         IsNormal(Reduct(node, k)) =>
           (evalPc = "returned" /\ evalResult = Reduct(node, k) /\ steps = k)
    /\ (IsNormal(node) /\ maxSteps >= 1) => (evalPc = "returned" /\ evalResult = node)

\* A normal form reached after exactly maxSteps steps is reported as a failure.
C5_Witness ==
  /\ evalPc = "threw"
  /\ maxSteps >= 1
  /\ IsNormal(current)
  /\ current = Reduct(node, maxSteps)

(***************************************************************************)
(* C6. evaluateWithSteps and evaluate agree: one throws iff the other      *)
(* does, and both return the same term.  The returned trace has one entry  *)
(* more than steps were applied: entry 0 renders the input, entry i + 1    *)
(* renders step of the term of entry i, the last entry renders the result. *)
(* Nothing is returned when the bound is hit.                              *)
(***************************************************************************)
C6_WithStepsAgrees ==
  wsPc \in {"returned", "threw"} =>
    /\ wsPc = evalPc
    /\ wsPc = "threw" => wsResult = null
    /\ wsPc = "returned" =>
         /\ wsResult.result = evalResult
         /\ stepCount = steps
         /\ Len(wsResult.steps) = stepCount + 1
         /\ \A i \in 1..Len(wsResult.steps) :
              wsResult.steps[i] = toString(Reduct(node, i - 1))
         /\ wsResult.steps[Len(wsResult.steps)] = toString(wsResult.result)

C6_Witness ==
  /\ wsPc = "returned"
  /\ evalPc = "returned"
  /\ stepCount >= 2
  /\ Len(wsResult.steps) = 3

\* While the budget lasts the term is reducible; evaluate never returns, and it
\* throws only after exactly maxSteps applications of step.
C7_NeverReturns ==
  node \in YApplications =>
    /\ evalPc # "returned"
    /\ steps <= maxSteps
    /\ (evalPc = "loop" /\ steps < maxSteps) => Reducible(current)
    /\ evalPc = "threw" => steps = maxSteps

(***************************************************************************)
(* C7. The Y combinator applied to an abstraction never evaluates to a     *)
(* term: step is applied at most maxSteps times, and evaluate ends by      *)
(* throwing after exactly maxSteps applications of step.                   *)
(***************************************************************************)
C7_YCombinatorDetected ==
  /\ []C7_NeverReturns
  /\ (node \in YApplications) ~> (evalPc = "threw")

C7_Witness ==
  /\ node \in YApplications
  /\ evalPc = "threw"
  /\ steps = maxSteps
  /\ steps >= 4

(***************************************************************************)
(* C9. Alpha-invariance of the rendered result: a term and the same term   *)
(* with a bound variable consistently renamed evaluate to the same text,   *)
(* and evaluate fails on one iff it fails on the other.                    *)
(***************************************************************************)
RECURSIVE NamesOf(_)
NamesOf(t) ==
  CASE t.type = "Variable" -> {t.name}
    [] t.type = "Abstraction" -> {t.param} \cup NamesOf(t.body)
    [] t.type = "Application" -> NamesOf(t.left) \cup NamesOf(t.right)

\* Every binder named a, and the variables it binds, renamed to b.
RECURSIVE RenameBound(_, _, _, _)
RenameBound(t, a, b, bound) ==
  CASE t.type = "Variable" -> IF t.name = a /\ bound THEN variable(b) ELSE t
    [] t.type = "Abstraction" ->
         IF t.param = a THEN abstraction(b, RenameBound(t.body, a, b, TRUE))
         ELSE abstraction(t.param, RenameBound(t.body, a, b, bound))
    [] t.type = "Application" ->
         application(RenameBound(t.left, a, b, bound), RenameBound(t.right, a, b, bound))

RenameTargets == {<<"w">>}

C9_AlphaInvariantRendering ==
  EvaluateEnded =>
    \A a \in NamesOf(node), b \in RenameTargets \ NamesOf(node) :
      LET renamed == RenameBound(node, a, b, FALSE)
          other == evaluate(renamed, maxSteps)
      IN AlphaEquivalent(renamed, node) =>
           /\ evalPc = "threw" <=> other = null
           /\ evalPc = "returned" => toString(evalResult) = toString(other)

(***************************************************************************)
(* C2. substitute is a correct capture-avoiding substitution, also on      *)
(* names that carry the prime: the result is alpha-equivalent to the node  *)
(* with every free occurrence of the name replaced (equal on de Bruijn     *)
(* form to the reference substitution), its free variables are those of    *)
(* the node without the name, with those of the replacement when the name  *)
(* is free in the node; \y.x with y for x gives \y'.y.                     *)
(***************************************************************************)
RECURSIVE FreeVars(_)
FreeVars(t) ==
  CASE t.type = "Variable" -> {t.name}
    [] t.type = "Abstraction" -> FreeVars(t.body) \ {t.param}
    [] t.type = "Application" -> FreeVars(t.left) \cup FreeVars(t.right)

C2_SubstituteCorrect ==
  subPc = "done" =>
    /\ DeBruijn(subResult)
         = RefBeta(DeBruijn(abstraction(varName, subNode)).body, DeBruijn(replacement))
    /\ FreeVars(subResult)
         = IF varName \in FreeVars(subNode)
           THEN (FreeVars(subNode) \ {varName}) \cup FreeVars(replacement)
           ELSE FreeVars(subNode)
    /\ (subNode = abstraction(<<"y">>, vx) /\ varName = <<"x">> /\ replacement = vy) =>
         subResult = abstraction(<<"y", "'">>, vy)

(***************************************************************************)
(* C4. Whenever parse returns a node, the parser's cursor is at the EOF    *)
(* token: every token before it is accounted for, and a token sequence     *)
(* with tokens left over after a complete expression is rejected.          *)
(***************************************************************************)
C4_ParseConsumesEveryToken ==
  parsePc = "returned" => parserTokens[cursor + 1].type = "EOF"

(***************************************************************************)
(* C8. The backslash and the Greek letter lambda are interchangeable:      *)
(* replacing an occurrence of one by the other leaves the types and values *)
(* of the tokens the same, and neither character is a lex error.           *)
(***************************************************************************)
LambdaCharacters == {"\\", "U+03BB"}

ReplaceLambdaAt(text, i) ==
  [text EXCEPT ![i] = IF text[i] = "\\" THEN "U+03BB" ELSE "\\"]

\* The tokens without their positions.
TypesAndValues(toks) ==
  IF toks = null THEN null
  ELSE [i \in 1..Len(toks) |->
          IF toks[i].type = "Variable" THEN <<toks[i].type, toks[i].value>>
          ELSE <<toks[i].type>>]

C8_LambdaInterchangeable ==
  lexPc \in {"returned", "threw"} =>
    /\ \A i \in 1..Len(raw) :
         raw[i] \in LambdaCharacters =>
           TypesAndValues(tokenize(ReplaceLambdaAt(raw, i)))
             = TypesAndValues(IF lexPc = "returned" THEN tokens ELSE null)
    /\ lexPc = "threw" => input[position] \notin LambdaCharacters

(***************************************************************************)
(* C10. When tokenize returns, the sequence holds exactly one EOF token,   *)
(* the last; no token stands for whitespace; the positions of the other    *)
(* tokens increase strictly and each is the offset in the trimmed input of *)
(* the token's first character; a Variable token's value is the maximal    *)
(* run of letters and digits from there; every character that is not       *)
(* whitespace lies in a token.  When the next token would start on a       *)
(* character that is none of whitespace, backslash, lambda, dot, the       *)
(* parentheses or a letter, tokenize throws and no token reaches a caller. *)
(***************************************************************************)
TokenLength(tok) ==
  CASE tok.type = "Variable" -> Len(tok.value)
    [] tok.type = "EOF" -> 0
    [] OTHER -> 1

FirstCharacterFits(tok) ==
  LET c == input[tok.position + 1]
  IN CASE tok.type = "Lambda" -> c \in LambdaCharacters
       [] tok.type = "Dot" -> c = "."
       [] tok.type = "LParen" -> c = "("
       [] tok.type = "RParen" -> c = ")"
       [] tok.type = "Variable" -> c \in Letters
       [] OTHER -> FALSE

MaximalRun(tok) ==
  LET from == tok.position + 1
      to == tok.position + Len(tok.value)
  IN /\ Len(tok.value) >= 1
     /\ to <= Len(input)
     /\ tok.value = SubSeq(input, from, to)
     /\ tok.value[1] \in Letters
     /\ \A i \in 1..Len(tok.value) : tok.value[i] \in Letters \cup Digits
     /\ to < Len(input) => input[to + 1] \notin Letters \cup Digits

TokenStarts == Whitespace \cup LambdaCharacters \cup {".", "(", ")"} \cup Letters

\* The character the next token starts on: the first that is not whitespace.
NextStart ==
  LET rest == {i \in (position + 1)..Len(input) : input[i] \notin Whitespace}
  IN IF rest = {} THEN ""
     ELSE input[CHOOSE i \in rest : \A j \in rest : i <= j]

C10_TokenStream ==
  /\ lexPc = "returned" =>
       LET n == Len(tokens)
       IN /\ n >= 1
          /\ tokens[n].type = "EOF"
          /\ \A i \in 1..(n - 1) :
               /\ tokens[i].type # "EOF"
               /\ tokens[i].position < Len(input)
               /\ input[tokens[i].position + 1] \notin Whitespace
               /\ FirstCharacterFits(tokens[i])
               /\ tokens[i].type = "Variable" => MaximalRun(tokens[i])
               /\ i + 1 < n => tokens[i].position < tokens[i + 1].position
          /\ \A k \in 1..Len(input) :
               input[k] \notin Whitespace <=>
                 \E i \in 1..(n - 1) :
                   /\ tokens[i].position < k
                   /\ k <= tokens[i].position + TokenLength(tokens[i])
  /\ (lexPc = "scan" /\ NextStart # "" /\ NextStart \notin TokenStarts) =>
       (ENABLED TokenizeThrow /\ ~ENABLED TokenizeStep /\ ~ENABLED TokenizeReturn)
  /\ lexPc = "threw" => (parsePc = "idle" /\ parserTokens = <<>>)

\* An identifier of two characters, a token after whitespace, then EOF.
C10_Witness ==
  /\ lexPc = "returned"
  /\ Len(tokens) >= 3
  /\ tokens[1].type = "Variable"
  /\ Len(tokens[1].value) = 2
  /\ \E k \in 1..Len(input) : input[k] \in Whitespace

\* The subterm at place p; null when the term has no such place.
RECURSIVE SubtermAt(_, _)
SubtermAt(t, p) ==
  IF p = <<>> THEN t
  ELSE CASE Head(p) = "body" ->
              IF t.type = "Abstraction" THEN SubtermAt(t.body, Tail(p)) ELSE null
         [] Head(p) \in {"left", "right"} ->
              IF t.type = "Application"
              THEN SubtermAt(IF Head(p) = "left" THEN t.left ELSE t.right, Tail(p))
              ELSE null

\* The term with s in place of the subterm at place p, nothing else touched.
RECURSIVE PlugAt(_, _, _)
PlugAt(t, p, s) ==
  IF p = <<>> THEN s
  ELSE CASE Head(p) = "body" -> abstraction(t.param, PlugAt(t.body, Tail(p), s))
         [] Head(p) = "left" -> application(PlugAt(t.left, Tail(p), s), t.right)
         [] Head(p) = "right" -> application(t.left, PlugAt(t.right, Tail(p), s))

\* r is t with the redex at place p beta-reduced: outside p the two trees are
\* the same, and r is alpha-equivalent to the reference contraction at p.
OneContraction(t, r, p) ==
  /\ SubtermAt(r, p) # null
  /\ r = PlugAt(t, p, SubtermAt(r, p))
  /\ DeBruijn(r) = RefContractAt(DeBruijn(t), p)

(***************************************************************************)
(* C11. step returns null exactly on beta-normal forms: step(t) is null    *)
(* iff no subterm of t is an application whose left operand is an          *)
(* abstraction; and a result other than null is t with exactly one such    *)
(* redex contracted by one beta reduction, the rest of the tree unchanged. *)
(***************************************************************************)
C11_StepContractsOneRedex ==
  evalPc # "idle" =>
    /\ step(current) = null <=> RedexPaths(current) = {}
    /\ step(current) # null =>
         \E p \in RedexPaths(current) : OneContraction(current, step(current), p)

(***************************************************************************)
(* Printing a term and reading the text back: formatExpression              *)
(* (src/index.ts:29-31) prints the term, and LambdaCalculus.parse           *)
(* (src/index.ts:17-22) is run on the printed text, the printed U+03BB      *)
(* typed as a backslash.                                                    *)
(***************************************************************************)
\* Two identifiers, one of them with a digit; and a name as freshVarName
\* makes them, which the lexer does not read.
IdentifierNames == {<<"x">>, <<"y", "1">>}

RoundNames == IdentifierNames \cup {<<"y", "'">>}

\* Every term over the identifiers, and the smaller terms over all the names.
RoundTerms ==
  UNION {TermsOver(IdentifierNames, n) : n \in 1..MaxRoundSize}
    \cup UNION {TermsOver(RoundNames, n) : n \in 1..(MaxRoundSize - 3)}

\* The text with every printed U+03BB read as the Lambda character "\".
ReadLambda(text) == [i \in 1..Len(text) |-> IF text[i] = "U+03BB" THEN "\\" ELSE text[i]]

\* A name the lexer reads as one Variable token (readVariable).
isIdentifier(name) ==
  /\ Len(name) >= 1
  /\ isAlpha(name[1])
  /\ \A i \in 1..Len(name) : isAlphaNumeric(name[i])

LexerValid(t) == \A name \in NamesOf(t) : isIdentifier(name)

\* formatExpression(node), and a Lexer constructed on the printed text.
FormatExpression ==
  /\ lexPc = "idle"
  /\ node # null
  /\ raw' = toString(node)
  /\ input' = trim(ReadLambda(raw'))
  /\ position' = 0
  /\ tokens' = <<>>
  /\ lexPc' = "scan"
  /\ UNCHANGED <<parseVars, evalVars, wsVars, subVars>>

InitRound ==
  /\ node \in RoundTerms
  /\ maxSteps = 0 /\ current = null /\ steps = 0 /\ evalPc = "idle"
  /\ evalResult = null
  /\ LexIdle /\ ParseIdle /\ WithStepsIdle /\ SubIdle

\* The parser never throws on a printed text (C12_RoundTrip states it), so
\* ParseThrow is no step of this specification.
NextRound ==
  \/ FormatExpression
  \/ TokenizeStep
  \/ TokenizeReturn
  \/ TokenizeThrow
  \/ ParserNew
  \/ ParseReturn

SpecRound == InitRound /\ [][NextRound]_vars

(***************************************************************************)
(* C12. Rendering is unambiguous (round trip): for every term whose names  *)
(* are identifiers the lexer reads, tokenizing and parsing the printed     *)
(* text, the printed U+03BB read as a Lambda token, neither throws nor     *)
(* leaves a token unread, and yields a tree structurally equal to the      *)
(* term; and "x y z" parses to a term that prints as "x y z".              *)
(***************************************************************************)
C12_RoundTrip ==
  /\ (lexPc # "idle" /\ LexerValid(node)) =>
       /\ raw = toString(node)
       /\ lexPc # "threw"
       /\ lexPc = "scan" => ~nextToken(input, position).threw
       /\ parsePc = "ready" => parse(parserTokens).ok
       /\ parsePc = "returned" =>
            /\ ast = node
            /\ parserIsAtEnd(parserTokens, cursor)
  /\ LET text == <<"x", " ", "y", " ", "z">>
         tree == parse(tokenize(text))
     IN /\ tree.ok
        /\ tree.node = application(application(vx, vy), vz)
        /\ toString(tree.node) = text

\* An abstraction applied to an application was printed, with both pairs of
\* parentheses, and read back.
C12_Witness ==
  /\ parsePc = "returned"
  /\ LexerValid(node)
  /\ node.type = "Application"
  /\ node.left.type = "Abstraction"
  /\ node.right.type = "Application"
  /\ ast = node

====
